---- MODULE Spec2Model ----
(***************************************************************************)
(* World-state mutation engine of the text adventure                       *)
(* (src/services/worldstate/world_state.py, with the smaller copy in       *)
(* src/mcp-server/world_state.py).                                         *)
(*                                                                         *)
(* The program state is the persisted world document (world_state.json)    *)
(* and the module-level dictionary DEFAULT_WORLD_STATE.  load_world_state  *)
(* returns either a fresh document parsed from the file, or                *)
(* DEFAULT_WORLD_STATE.copy(): a SHALLOW copy, whose nested dictionaries   *)
(* and lists are the ones of DEFAULT_WORLD_STATE itself, so every nested   *)
(* mutation of such a document is a mutation of DEFAULT_WORLD_STATE.       *)
(* Every tool is a function from the store to a new store and a message.   *)
(***************************************************************************)
EXTENDS Integers, Sequences, FiniteSets, TLC

VARIABLES
    fileStatus,           \* world_state.json: "ok" (parses), "missing" or "corrupt"
    fileDoc,              \* the document in world_state.json when fileStatus = "ok"
    DEFAULT_WORLD_STATE,  \* the module-level default dictionary (mutable)
    writable,             \* what a write of world_state.json does: "yes" (it
                          \* succeeds), "open_fails" or "dump_fails"
    calls,                \* the calls in progress of the concurrent callers
    steps                 \* number of tool calls made (bounded specifications)

vars == <<fileStatus, fileDoc, DEFAULT_WORLD_STATE, writable, calls, steps>>

(***************************************************************************)
(* Bounds of the model.                                                    *)
(***************************************************************************)
\* The items of the default world that the model tracks (the default world
\* registers 27 items; no tool relates two items to each other).
ModelItems == {"silver_key", "iron_pot"}

\* Capacity of recent_thoughts / recent_actions.
MemoryCap == 4

\* Number of tool calls made in the bounded specifications.
MaxSteps == 4

(***************************************************************************)
(* Sequence helpers (Python list operations).                              *)
(***************************************************************************)
Range(s) == {s[i] : i \in DOMAIN s}

\* x in list
Contains(s, x) == \E i \in DOMAIN s : s[i] = x

\* list.remove(x): removes the first occurrence
ListRemove(s, x) ==
    LET i == CHOOSE k \in DOMAIN s : s[k] = x /\ \A j \in 1..(k-1) : s[j] # x
    IN  SubSeq(s, 1, i-1) \o SubSeq(s, i+1, Len(s))

\* list[-n:]
LastN(s, n) == IF Len(s) > n THEN SubSeq(s, Len(s) - n + 1, Len(s)) ELSE s

\* number of occurrences of x in s
Count(s, x) == Cardinality({i \in DOMAIN s : s[i] = x})

Restrict(s) == SelectSeq(s, LAMBDA i : i \in ModelItems)

(***************************************************************************)
(* The default world (services module), restricted to ModelItems.          *)
(***************************************************************************)
NoDoors == [d \in {} |-> [locked |-> FALSE, description |-> ""]]

DefaultLocations ==
    [foyer |->
        [items |-> Restrict(<<"silver_key", "umbrella_stand", "coat_rack", "side_table", "doormat">>),
         exits |-> [north |-> "study", east |-> "library", west |-> "kitchen"],
         door_states |-> [north |-> [locked |-> TRUE, description |-> "locked oak door"]]],
     study |->
        [items |-> Restrict(<<"brass_compass", "fountain_pen", "letter_opener", "sealed_envelope", "blotting_paper">>),
         exits |-> [south |-> "foyer", up |-> "attic"],
         door_states |-> NoDoors],
     library |->
        [items |-> Restrict(<<"leather_journal", "glass_paperweight", "step_ladder", "reading_glasses", "index_cards", "candle_stub">>),
         exits |-> [west |-> "foyer"],
         door_states |-> NoDoors],
     kitchen |->
        [items |-> Restrict(<<"iron_pot", "dented_kettle", "chipped_mug", "hanging_ladle">>),
         exits |-> [east |-> "foyer", down |-> "cellar"],
         door_states |-> [down |-> [locked |-> TRUE, description |-> "heavy wooden trapdoor"]]],
     attic |->
        [items |-> Restrict(<<"golden_locket", "moth_eaten_blanket", "wooden_crate", "broken_frame">>),
         exits |-> [down |-> "study"],
         door_states |-> NoDoors],
     cellar |->
        [items |-> Restrict(<<"dusty_bottle", "coal_scuttle", "rusted_hook">>),
         exits |-> [up |-> "kitchen"],
         door_states |-> NoDoors]]

\* can_unlock of every registered item: only silver_key opens anything.
DefaultItems ==
    [i \in ModelItems |->
        [can_unlock |-> IF i = "silver_key" THEN {"foyer_north"} ELSE {}]]

DefaultNpcs ==
    [elena |->
        [location |-> "library",
         inventory |-> <<>>,
         recent_thoughts |-> <<>>,
         recent_actions |-> <<>>,
         personality |-> "curious and observant",
         backstory |-> "woke up inside the manor",
         core_memories |-> <<>>]]

DefaultWorld ==
    [player |-> [location |-> "foyer", inventory |-> <<>>, met_npcs |-> <<>>],
     locations |-> DefaultLocations,
     items |-> DefaultItems,
     npcs |-> DefaultNpcs]

(***************************************************************************)
(* Messages.  A message is modelled by its kind; the kinds that the code   *)
(* prefixes with "Error:" are the error kinds.                             *)
(***************************************************************************)
ErrorKinds ==
    {"LocationNotFound", "NoSuchExit", "DoorLocked", "EntityNotFound",
     "ItemNotFound", "ItemNotInInventory", "ItemNotInNpcInventory",
     "SourceNotFound", "ItemNotInLocation", "DestinationNotFound",
     "NotAvailable", "NotInInventory", "NoSuchDoor", "KeyNotHeld",
     "KeyItemNotFound", "KeyDoesNotMatch"}

\* result.startswith("Error:")
IsError(res) == res \in ErrorKinds

\* The call does not return: a subscript with a key that the dictionary does
\* not have raises KeyError out of the tool.
IsFault(res) == res = "KeyError"

\* door identifier f"{location}_{direction}"
Underscore(location, direction) ==
    CASE location = "foyer"   /\ direction = "north" -> "foyer_north"
      [] location = "foyer"   /\ direction = "down"  -> "foyer_down"
      [] location = "foyer"   /\ direction = "east"  -> "foyer_east"
      [] location = "kitchen" /\ direction = "north" -> "kitchen_north"
      [] location = "kitchen" /\ direction = "down"  -> "kitchen_down"
      [] location = "kitchen" /\ direction = "east"  -> "kitchen_east"
      [] OTHER -> "unlisted_door"

(***************************************************************************)
(* WorldStore.  A store is the record of the four store variables.         *)
(***************************************************************************)
Store == [fileStatus |-> fileStatus, fileDoc |-> fileDoc,
          dflt |-> DEFAULT_WORLD_STATE, writable |-> writable]

\* save_world_state(state): the write replaces the file; a failing write is
\* logged and swallowed.  open(WORLD_STATE_FILE, 'w') truncates the file, so
\* a write that fails in json.dump, after the open, leaves a file that holds
\* a strict prefix of a document and no longer parses; a write that fails in
\* mkdir or open leaves the file as it is.
save_world_state(S, state) ==
    CASE S.writable = "yes" -> [S EXCEPT !.fileStatus = "ok", !.fileDoc = state]
      [] S.writable = "open_fails" -> S
      [] OTHER -> [S EXCEPT !.fileStatus = "corrupt"]

\* load_world_state(): [store, state, alias].  alias says that the returned
\* document shares its nested objects with DEFAULT_WORLD_STATE.
load_world_state(S) ==
    CASE S.fileStatus = "ok" ->
            [store |-> S, state |-> S.fileDoc, alias |-> FALSE]
      [] S.fileStatus = "missing" ->
            [store |-> save_world_state(S, S.dflt), state |-> S.dflt, alias |-> TRUE]
      [] OTHER ->
            [store |-> S, state |-> S.dflt, alias |-> TRUE]

\* The store after the handler has mutated (nested parts of) the loaded
\* document in place: the mutation reaches DEFAULT_WORLD_STATE when the
\* document is an alias of it.
Mutated(L, state) ==
    IF L.alias THEN [L.store EXCEPT !.dflt = state] ELSE L.store

\* The handler returns message res after mutating the loaded document to
\* state, without saving.
Return(L, state, res) ==
    [store |-> Mutated(L, state), res |-> res, state |-> state, saved |-> FALSE]

\* Variant of SaveAndReturn that returns the message without saving.
SaveAndReturn_NoSave(L, state, res) ==
    [store |-> Mutated(L, state), res |-> res, state |-> state, saved |-> TRUE]

\* The handler mutates the loaded document to state, saves it and returns res.
SaveAndReturn(L, state, res) ==
    [store |-> save_world_state(Mutated(L, state), state), res |-> res,
     state |-> state, saved |-> TRUE]

(***************************************************************************)
(* Movement.                                                               *)
(***************************************************************************)
ExitTargets(loc) == {loc.exits[d] : d \in DOMAIN loc.exits}

\* Variant of LockedOnWay: the move is refused only when every direction
\* leading to location is locked.
LockedOnWay_AllLocked(loc, location) ==
    /\ \E d \in DOMAIN loc.exits : loc.exits[d] = location
    /\ \A d \in DOMAIN loc.exits :
        loc.exits[d] = location =>
            /\ d \in DOMAIN loc.door_states
            /\ loc.door_states[d].locked

\* the loop over current_exits.items(): some direction leading to location
\* has a door_state with locked = True
LockedOnWay(loc, location) ==
    \E d \in DOMAIN loc.exits :
        /\ loc.exits[d] = location
        /\ d \in DOMAIN loc.door_states
        /\ loc.door_states[d].locked

\* Variant of MoveCheck that looks at the exits before it looks the target up
\* in locations.
MoveCheck_ExitsFirst(state, current_location, location) ==
    CASE current_location \notin DOMAIN state.locations -> "KeyError"
      [] location \notin ExitTargets(state.locations[current_location]) -> "NoSuchExit"
      [] location \notin DOMAIN state.locations -> "LocationNotFound"
      [] LockedOnWay(state.locations[current_location], location) -> "DoorLocked"
      [] OTHER -> "ok"

\* Variant of MoveCheck that does not look at the doors.
MoveCheck_NoLockCheck(state, current_location, location) ==
    CASE location \notin DOMAIN state.locations -> "LocationNotFound"
      [] current_location \notin DOMAIN state.locations -> "KeyError"
      [] location \notin ExitTargets(state.locations[current_location]) -> "NoSuchExit"
      [] OTHER -> "ok"

\* Variant of MoveCheck without the test that some exit leads to location.
MoveCheck_NoExitCheck(state, current_location, location) ==
    CASE location \notin DOMAIN state.locations -> "LocationNotFound"
      [] LockedOnWay(state.locations[current_location], location) -> "DoorLocked"
      [] OTHER -> "ok"

\* Variant of MoveCheck that validates nothing but the locks.
MoveCheck_LocksOnly(state, current_location, location) ==
    CASE LockedOnWay(state.locations[current_location], location) -> "DoorLocked"
      [] OTHER -> "ok"

\* The checks shared by move_player and move_npc, in the order of the code.
\* state["locations"][current_location] raises KeyError when the mover's
\* location is no key of locations.
MoveCheck(state, current_location, location) ==
    CASE location \notin DOMAIN state.locations -> "LocationNotFound"
      [] current_location \notin DOMAIN state.locations -> "KeyError"
      [] location \notin ExitTargets(state.locations[current_location]) -> "NoSuchExit"
      [] LockedOnWay(state.locations[current_location], location) -> "DoorLocked"
      [] OTHER -> "ok"

\* Variant of move_player that builds the player record anew around the new
\* location.
move_player_ResetsPlayer(S, location) ==
    LET L == load_world_state(S)
        state == L.state
        current_location == state.player.location
        chk == MoveCheck(state, current_location, location)
    IN  IF chk # "ok"
        THEN Return(L, state, chk)
        ELSE SaveAndReturn(L,
                [state EXCEPT !.player =
                    [location |-> location, inventory |-> <<>>, met_npcs |-> <<>>]],
                "Moved")

move_player(S, location) ==
    LET L == load_world_state(S)
        state == L.state
        current_location == state.player.location
        chk == MoveCheck(state, current_location, location)
    IN  IF chk # "ok"
        THEN Return(L, state, chk)
        ELSE SaveAndReturn(L, [state EXCEPT !.player.location = location], "Moved")

\* Variant of move_npc without the test that the NPC exists: the subscript
\* state["npcs"][npc_id] then raises for an unknown id.
move_npc_NoNpcCheck(S, npc_id, location) ==
    LET L == load_world_state(S)
        state == L.state
    IN  IF npc_id \notin DOMAIN state.npcs
        THEN Return(L, state, "KeyError")
        ELSE LET current_location == state.npcs[npc_id].location
                 chk == MoveCheck(state, current_location, location)
             IN  IF chk # "ok"
                 THEN Return(L, state, chk)
                 ELSE SaveAndReturn(L, [state EXCEPT !.npcs[npc_id].location = location], "Moved")

move_npc(S, npc_id, location) ==
    LET L == load_world_state(S)
        state == L.state
    IN  IF npc_id \notin DOMAIN state.npcs
        THEN Return(L, state, "EntityNotFound")
        ELSE LET current_location == state.npcs[npc_id].location
                 chk == MoveCheck(state, current_location, location)
             IN  IF chk # "ok"
                 THEN Return(L, state, chk)
                 ELSE SaveAndReturn(L, [state EXCEPT !.npcs[npc_id].location = location], "Moved")

(***************************************************************************)
(* Transfer.                                                               *)
(***************************************************************************)
\* Variant of TakeFromSource that looks the source up among the locations
\* before it looks among the NPCs.
TakeFromSource_LocationFirst(state, item, from_location) ==
    CASE from_location = "player" ->
            IF ~Contains(state.player.inventory, item)
            THEN [err |-> "ItemNotInInventory", state |-> state]
            ELSE [err |-> "ok",
                  state |-> [state EXCEPT !.player.inventory = ListRemove(@, item)]]
      [] from_location # "player" /\ from_location \in DOMAIN state.locations ->
            IF ~Contains(state.locations[from_location].items, item)
            THEN [err |-> "ItemNotInLocation", state |-> state]
            ELSE [err |-> "ok",
                  state |-> [state EXCEPT !.locations[from_location].items = ListRemove(@, item)]]
      [] OTHER ->
            IF from_location \notin DOMAIN state.npcs
            THEN [err |-> "SourceNotFound", state |-> state]
            ELSE IF ~Contains(state.npcs[from_location].inventory, item)
            THEN [err |-> "ItemNotInNpcInventory", state |-> state]
            ELSE [err |-> "ok",
                  state |-> [state EXCEPT !.npcs[from_location].inventory = ListRemove(@, item)]]

\* Variant of TakeFromSource that checks the source and forgets the removal.
TakeFromSource_KeepsItem(state, item, from_location) ==
    CASE from_location = "player" ->
            [err |-> IF Contains(state.player.inventory, item) THEN "ok" ELSE "ItemNotInInventory",
             state |-> state]
      [] from_location # "player" /\ from_location \in DOMAIN state.npcs ->
            [err |-> IF Contains(state.npcs[from_location].inventory, item)
                     THEN "ok" ELSE "ItemNotInNpcInventory",
             state |-> state]
      [] OTHER ->
            [err |-> IF from_location \notin DOMAIN state.locations THEN "SourceNotFound"
                     ELSE IF Contains(state.locations[from_location].items, item)
                     THEN "ok" ELSE "ItemNotInLocation",
             state |-> state]

\* Lines 367-383: the source container is checked and the item removed from
\* it.  [err, state]: err = "ok" and the document without the item, or the
\* error and the document untouched.
TakeFromSource(state, item, from_location) ==
    CASE from_location = "player" ->
            IF ~Contains(state.player.inventory, item)
            THEN [err |-> "ItemNotInInventory", state |-> state]
            ELSE [err |-> "ok",
                  state |-> [state EXCEPT !.player.inventory = ListRemove(@, item)]]
      [] from_location # "player" /\ from_location \in DOMAIN state.npcs ->
            IF ~Contains(state.npcs[from_location].inventory, item)
            THEN [err |-> "ItemNotInNpcInventory", state |-> state]
            ELSE [err |-> "ok",
                  state |-> [state EXCEPT !.npcs[from_location].inventory = ListRemove(@, item)]]
      [] OTHER ->
            IF from_location \notin DOMAIN state.locations
            THEN [err |-> "SourceNotFound", state |-> state]
            ELSE IF ~Contains(state.locations[from_location].items, item)
            THEN [err |-> "ItemNotInLocation", state |-> state]
            ELSE [err |-> "ok",
                  state |-> [state EXCEPT !.locations[from_location].items = ListRemove(@, item)]]

\* Lines 385-396: the item is appended to the destination container; an
\* unknown destination returns the error with the document as it is then.
PutInDestination(state, item, to_location) ==
    CASE to_location = "player" ->
            [err |-> "ok", state |-> [state EXCEPT !.player.inventory = Append(@, item)]]
      [] to_location # "player" /\ to_location \in DOMAIN state.npcs ->
            [err |-> "ok", state |-> [state EXCEPT !.npcs[to_location].inventory = Append(@, item)]]
      [] OTHER ->
            IF to_location \notin DOMAIN state.locations
            THEN [err |-> "DestinationNotFound", state |-> state]
            ELSE [err |-> "ok", state |-> [state EXCEPT !.locations[to_location].items = Append(@, item)]]

transfer_item(S, item, from_location, to_location) ==
    LET L == load_world_state(S)
        state == L.state
    IN  IF item \notin DOMAIN state.items
        THEN Return(L, state, "ItemNotFound")
        ELSE LET src == TakeFromSource(state, item, from_location)
             IN  IF src.err # "ok"
                 THEN Return(L, src.state, src.err)
                 ELSE LET dst == PutInDestination(src.state, item, to_location)
                      IN  IF dst.err # "ok"
                          THEN Return(L, dst.state, dst.err)
                          ELSE SaveAndReturn(L, dst.state, "Transferred")

\* Variant of add_to_inventory that leaves the availability test to
\* transfer_item.
add_to_inventory_NoCheck(S, item) ==
    LET L == load_world_state(S)
        state == L.state
        current_location == state.player.location
        r == transfer_item(L.store, item, current_location, "player")
    IN  IF IsError(r.res) THEN r ELSE [r EXCEPT !.res = "PickedUp"]

add_to_inventory(S, item) ==
    LET L == load_world_state(S)
        state == L.state
        current_location == state.player.location
    IN  IF current_location \notin DOMAIN state.locations
        THEN Return(L, state, "KeyError")
        ELSE IF ~Contains(state.locations[current_location].items, item)
        THEN Return(L, state, "NotAvailable")
        ELSE LET r == transfer_item(L.store, item, current_location, "player")
             IN  IF IsError(r.res) THEN r ELSE [r EXCEPT !.res = "PickedUp"]

remove_from_inventory(S, item) ==
    LET L == load_world_state(S)
        state == L.state
        current_location == state.player.location
    IN  IF ~Contains(state.player.inventory, item)
        THEN Return(L, state, "NotInInventory")
        ELSE LET r == transfer_item(L.store, item, "player", current_location)
             IN  IF IsError(r.res) THEN r ELSE [r EXCEPT !.res = "Dropped"]

(***************************************************************************)
(* Doors.                                                                  *)
(***************************************************************************)
\* Variant of UnlockCheck that accepts any held, registered item as the key.
UnlockCheck_AnyKey(state, location, direction, key_item) ==
    CASE location \notin DOMAIN state.locations -> "LocationNotFound"
      [] direction \notin DOMAIN state.locations[location].door_states -> "NoSuchDoor"
      [] ~Contains(state.player.inventory, key_item) -> "KeyNotHeld"
      [] key_item \notin DOMAIN state.items -> "KeyItemNotFound"
      [] OTHER -> "ok"

\* Variant of UnlockCheck that looks the key up in items before it looks in
\* the inventory.
UnlockCheck_ItemFirst(state, location, direction, key_item) ==
    CASE location \notin DOMAIN state.locations -> "LocationNotFound"
      [] direction \notin DOMAIN state.locations[location].door_states -> "NoSuchDoor"
      [] key_item \notin DOMAIN state.items -> "KeyItemNotFound"
      [] ~Contains(state.player.inventory, key_item) -> "KeyNotHeld"
      [] Underscore(location, direction) \notin state.items[key_item].can_unlock -> "KeyDoesNotMatch"
      [] OTHER -> "ok"

\* The checks of unlock_door, in the order of the code.
UnlockCheck(state, location, direction, key_item) ==
    CASE location \notin DOMAIN state.locations -> "LocationNotFound"
      [] direction \notin DOMAIN state.locations[location].door_states -> "NoSuchDoor"
      [] ~Contains(state.player.inventory, key_item) -> "KeyNotHeld"
      [] key_item \notin DOMAIN state.items -> "KeyItemNotFound"
      [] Underscore(location, direction) \notin state.items[key_item].can_unlock -> "KeyDoesNotMatch"
      [] OTHER -> "ok"

\* Variant of unlock_door that flips the lock.
unlock_door_Toggles(S, location, direction, key_item) ==
    LET L == load_world_state(S)
        state == L.state
        chk == UnlockCheck(state, location, direction, key_item)
    IN  IF chk # "ok"
        THEN Return(L, state, chk)
        ELSE SaveAndReturn(L,
                [state EXCEPT !.locations[location].door_states[direction].locked = ~@],
                "Unlocked")

unlock_door(S, location, direction, key_item) ==
    LET L == load_world_state(S)
        state == L.state
        chk == UnlockCheck(state, location, direction, key_item)
    IN  IF chk # "ok"
        THEN Return(L, state, chk)
        ELSE SaveAndReturn(L,
                [state EXCEPT !.locations[location].door_states[direction].locked = FALSE],
                "Unlocked")

(***************************************************************************)
(* NPC memory and configuration.                                           *)
(***************************************************************************)
\* Variant of Remember that records the entry also when it is empty.
Remember_AppendsEmpty(buffer, entry) == LastN(Append(buffer, entry), MemoryCap)

\* Variant of Remember that never truncates.
Remember_NoTruncate(buffer, entry) ==
    IF entry = "" THEN buffer ELSE Append(buffer, entry)

\* Variant of Remember that keeps the first entries of a full buffer.
Remember_KeepsOldest(buffer, entry) ==
    IF entry = "" THEN buffer
    ELSE IF Len(buffer) >= MemoryCap THEN SubSeq(buffer, 1, MemoryCap)
    ELSE Append(buffer, entry)

\* buffer.append(entry); if len(buffer) > 4: buffer = buffer[-4:]
Remember(buffer, entry) ==
    IF entry = "" THEN buffer ELSE LastN(Append(buffer, entry), MemoryCap)

update_npc_memory(S, npc_id, thought, action) ==
    LET L == load_world_state(S)
        state == L.state
    IN  IF npc_id \notin DOMAIN state.npcs
        THEN Return(L, state, "EntityNotFound")
        ELSE SaveAndReturn(L,
                [state EXCEPT !.npcs[npc_id].recent_thoughts = Remember(@, thought),
                              !.npcs[npc_id].recent_actions = Remember(@, action)],
                IF thought # "" \/ action # "" THEN "Updated" ELSE "NoUpdates")

\* core_memories is a string, modelled as a sequence of characters.
\* mem.strip(): leading and trailing blanks removed
RECURSIVE Strip(_)
Strip(w) ==
    IF w = <<>> THEN w
    ELSE IF Head(w) = " " THEN Strip(Tail(w))
    ELSE IF w[Len(w)] = " " THEN Strip(SubSeq(w, 1, Len(w) - 1))
    ELSE w

\* core_memories.split(","): the pieces between the commas
RECURSIVE SplitComma(_, _)
SplitComma(s, piece) ==
    IF s = <<>> THEN <<piece>>
    ELSE IF Head(s) = "," THEN <<piece>> \o SplitComma(Tail(s), <<>>)
    ELSE SplitComma(Tail(s), Append(piece, Head(s)))

\* [mem.strip() for mem in core_memories.split(",") if mem.strip()]
MemoryList(core_memories) ==
    LET pieces == SplitComma(core_memories, <<>>)
        stripped == [i \in DOMAIN pieces |-> Strip(pieces[i])]
    IN  SelectSeq(stripped, LAMBDA w : w # <<>>)

configure_npc(S, npc_id, personality, backstory, core_memories) ==
    LET L == load_world_state(S)
        state == L.state
    IN  IF npc_id \notin DOMAIN state.npcs
        THEN Return(L, state, "EntityNotFound")
        ELSE LET s1 == IF personality # ""
                       THEN [state EXCEPT !.npcs[npc_id].personality = personality]
                       ELSE state
                 s2 == IF backstory # ""
                       THEN [s1 EXCEPT !.npcs[npc_id].backstory = backstory]
                       ELSE s1
                 s3 == IF core_memories # <<>>
                       THEN [s2 EXCEPT !.npcs[npc_id].core_memories = MemoryList(core_memories)]
                       ELSE s2
             IN  IF personality # "" \/ backstory # "" \/ core_memories # <<>>
                 THEN SaveAndReturn(L, s3, "Configured")
                 ELSE Return(L, s3, "NoChanges")

\* Variant of mark_npc_as_met without the "already met" test.
mark_npc_as_met_NoCheck(S, npc_id) ==
    LET L == load_world_state(S)
        state == L.state
    IN  IF npc_id \notin DOMAIN state.npcs
        THEN Return(L, state, "EntityNotFound")
        ELSE SaveAndReturn(L, [state EXCEPT !.player.met_npcs = Append(@, npc_id)], "Met")

mark_npc_as_met(S, npc_id) ==
    LET L == load_world_state(S)
        state == L.state
    IN  IF npc_id \notin DOMAIN state.npcs
        THEN Return(L, state, "EntityNotFound")
        ELSE IF Contains(state.player.met_npcs, npc_id)
        THEN Return(L, state, "AlreadyMet")
        ELSE SaveAndReturn(L, [state EXCEPT !.player.met_npcs = Append(@, npc_id)], "Met")

get_world_state(S) ==
    LET L == load_world_state(S)
    IN  Return(L, L.state, "State")

(***************************************************************************)
(* Actions: one per tool, with its arguments drawn from small sets that    *)
(* hold registered ids, ids of the wrong kind and unknown ids.             *)
(***************************************************************************)
LocationArgs == {"foyer", "study", "library", "kitchen", "attic", "cellar", "nowhere"}

NpcArgs == {"elena", "nobody"}

ItemArgs == {"silver_key", "iron_pot", "ghost_item"}

ContainerArgs == {"player", "elena", "foyer", "study", "nowhere"}

DoorLocationArgs == {"foyer", "kitchen", "nowhere"}

DirectionArgs == {"north", "down", "east"}

MemoryArgs == {<<"", "">>, <<"t", "a">>}

ConfigArgs == {<<"", "", <<>>>>, <<"stern", "a retired guard", <<"a", ",", " ", "b", " ", ",", " ">>>>}

Callers == {"c1", "c2"}

Idle == [pc |-> "idle"]

\* The call returns r: the store is the one the call leaves behind.
Do(r) ==
    /\ fileStatus' = r.store.fileStatus
    /\ fileDoc' = r.store.fileDoc
    /\ DEFAULT_WORLD_STATE' = r.store.dflt
    /\ writable' = r.store.writable

GetWorldState == Do(get_world_state(Store))

MovePlayer == \E l \in LocationArgs : Do(move_player(Store, l))

MoveNpc == \E n \in NpcArgs, l \in LocationArgs : Do(move_npc(Store, n, l))

TransferItem ==
    \E i \in ItemArgs, f \in ContainerArgs, t \in ContainerArgs :
        Do(transfer_item(Store, i, f, t))

AddToInventory == \E i \in ItemArgs : Do(add_to_inventory(Store, i))

RemoveFromInventory ==
    \E i \in ItemArgs : Do(remove_from_inventory(Store, i))

UnlockDoor ==
    \E l \in DoorLocationArgs, d \in DirectionArgs, k \in ItemArgs :
        Do(unlock_door(Store, l, d, k))

UpdateNpcMemory ==
    \E n \in NpcArgs, m \in MemoryArgs :
        Do(update_npc_memory(Store, n, m[1], m[2]))

ConfigureNpc ==
    \E n \in NpcArgs, c \in ConfigArgs :
        Do(configure_npc(Store, n, c[1], c[2], c[3]))

MarkNpcAsMet == \E n \in NpcArgs : Do(mark_npc_as_met(Store, n))

Init ==
    /\ fileStatus = "ok"
    /\ fileDoc = DefaultWorld
    /\ DEFAULT_WORLD_STATE = DefaultWorld
    /\ writable = "yes"
    /\ calls = [c \in Callers |-> Idle]
    /\ steps = 0

\* The calls are made one after the other, each run from its load to its
\* return without interruption.
Sequential == UNCHANGED <<calls, steps>>

Next ==
    \/ GetWorldState /\ Sequential
    \/ MovePlayer /\ Sequential
    \/ MoveNpc /\ Sequential
    \/ TransferItem /\ Sequential
    \/ AddToInventory /\ Sequential
    \/ RemoveFromInventory /\ Sequential
    \/ UnlockDoor /\ Sequential
    \/ UpdateNpcMemory /\ Sequential
    \/ ConfigureNpc /\ Sequential
    \/ MarkNpcAsMet /\ Sequential

Spec == Init /\ [][Next]_vars

(***************************************************************************)
(* The NPC tools alone, with every mix of empty and non-empty arguments.   *)
(***************************************************************************)
ThoughtArgs == {"", "t1", "t2"}

ActionArgs == {"", "a1", "a2"}

UpdateNpcMemoryAny ==
    \E n \in NpcArgs, t \in ThoughtArgs, a \in ActionArgs :
        Do(update_npc_memory(Store, n, t, a))

NextNpc ==
    \/ GetWorldState /\ Sequential
    \/ UpdateNpcMemoryAny /\ Sequential
    \/ ConfigureNpc /\ Sequential
    \/ MarkNpcAsMet /\ Sequential
    \/ MoveNpc /\ Sequential

SpecNpc == Init /\ [][NextNpc]_vars

(***************************************************************************)
(* A persisted world in which two directions lead from foyer to study: the *)
(* locked north door and a window without a door.                          *)
(***************************************************************************)
VariantWorld ==
    [DefaultWorld EXCEPT !.locations["foyer"].exits =
        [north |-> "study", east |-> "library", west |-> "kitchen", window |-> "study"]]

InitVariant ==
    /\ fileStatus = "ok"
    /\ fileDoc = VariantWorld
    /\ DEFAULT_WORLD_STATE = DefaultWorld
    /\ writable = "yes"
    /\ calls = [c \in Callers |-> Idle]
    /\ steps = 0

NextVariant ==
    \/ GetWorldState /\ Sequential
    \/ MovePlayer /\ Sequential
    \/ MoveNpc /\ Sequential
    \/ TransferItem /\ Sequential
    \/ AddToInventory /\ Sequential
    \/ RemoveFromInventory /\ Sequential
    \/ UnlockDoor /\ Sequential

SpecVariant == InitVariant /\ [][NextVariant]_vars

(***************************************************************************)
(* The first calls of a process that finds world_state.json missing or     *)
(* unreadable, so that load_world_state falls back to DEFAULT_WORLD_STATE. *)
(***************************************************************************)
InitFallback ==
    /\ fileStatus \in {"missing", "corrupt"}
    /\ fileDoc = DefaultWorld
    /\ DEFAULT_WORLD_STATE = DefaultWorld
    /\ writable = "yes"
    /\ calls = [c \in Callers |-> Idle]
    /\ steps = 0

Counted ==
    /\ steps < MaxSteps
    /\ steps' = steps + 1
    /\ UNCHANGED calls

NextFallback ==
    \/ GetWorldState /\ Counted
    \/ MovePlayer /\ Counted
    \/ MoveNpc /\ Counted
    \/ TransferItem /\ Counted
    \/ AddToInventory /\ Counted
    \/ RemoveFromInventory /\ Counted
    \/ UnlockDoor /\ Counted
    \/ UpdateNpcMemory /\ Counted
    \/ ConfigureNpc /\ Counted
    \/ MarkNpcAsMet /\ Counted

SpecFallback == InitFallback /\ [][NextFallback]_vars

(***************************************************************************)
(* A persisted world in which the id "foyer" names an NPC as well as a     *)
(* location.                                                               *)
(***************************************************************************)
TwinWorld ==
    [DefaultWorld EXCEPT !.npcs =
        [n \in {"elena", "foyer"} |->
            IF n = "elena" THEN DefaultNpcs["elena"]
            ELSE [location |-> "library",
                  inventory |-> <<>>,
                  recent_thoughts |-> <<>>,
                  recent_actions |-> <<>>,
                  personality |-> "",
                  backstory |-> "",
                  core_memories |-> <<>>]]]

InitTwin ==
    /\ fileStatus = "ok"
    /\ fileDoc = TwinWorld
    /\ DEFAULT_WORLD_STATE = DefaultWorld
    /\ writable = "yes"
    /\ calls = [c \in Callers |-> Idle]
    /\ steps = 0

NextTwin ==
    \/ GetWorldState /\ Sequential
    \/ MovePlayer /\ Sequential
    \/ MoveNpc /\ Sequential
    \/ TransferItem /\ Sequential
    \/ AddToInventory /\ Sequential
    \/ RemoveFromInventory /\ Sequential
    \/ UnlockDoor /\ Sequential
    \/ UpdateNpcMemory /\ Sequential
    \/ MarkNpcAsMet /\ Sequential

SpecTwin == InitTwin /\ [][NextTwin]_vars

(***************************************************************************)
(* NPC facts.  The services module has no facts field and no add_npc_facts *)
(* tool; both are taken from the specification of the engine: an NPC has a *)
(* facts sequence, and add_npc_facts appends the supplied facts that are   *)
(* not already present and returns the ones that were new.                 *)
(***************************************************************************)
\* Variant of NewFacts that takes the supplied facts as they are.
RECURSIVE NewFacts_AppendAll(_, _)
NewFacts_AppendAll(known, facts) ==
    IF facts = <<>> THEN <<>>
    ELSE <<Head(facts)>> \o NewFacts_AppendAll(known, Tail(facts))

\* The supplied facts that are not in known, each taken once, in the order
\* supplied.
RECURSIVE NewFacts(_, _)
NewFacts(known, facts) ==
    IF facts = <<>> THEN <<>>
    ELSE IF Contains(known, Head(facts))
    THEN NewFacts(known, Tail(facts))
    ELSE <<Head(facts)>> \o NewFacts(Append(known, Head(facts)), Tail(facts))

add_npc_facts(S, npc_id, facts) ==
    LET L == load_world_state(S)
        state == L.state
    IN  IF npc_id \notin DOMAIN state.npcs
        THEN Return(L, state, "EntityNotFound") @@ [new |-> <<>>]
        ELSE LET new == NewFacts(state.npcs[npc_id].facts, facts)
             IN  SaveAndReturn(L, [state EXCEPT !.npcs[npc_id].facts = @ \o new], "FactsAdded")
                    @@ [new |-> new]

FactIds == {"f1", "f2", "f3"}

\* The lists of at most two facts, among them lists that name a fact twice.
FactArgs ==
    {<<>>} \cup {<<a>> : a \in FactIds} \cup {<<a, b>> : a \in FactIds, b \in FactIds}

AddNpcFacts == \E n \in NpcArgs, fs \in FactArgs : Do(add_npc_facts(Store, n, fs))

\* The default world with an empty facts sequence on every NPC.
FactsWorld ==
    [DefaultWorld EXCEPT !.npcs =
        [n \in DOMAIN DefaultNpcs |-> DefaultNpcs[n] @@ [facts |-> <<>>]]]

InitFacts ==
    /\ fileStatus = "ok"
    /\ fileDoc = FactsWorld
    /\ DEFAULT_WORLD_STATE = FactsWorld
    /\ writable = "yes"
    /\ calls = [c \in Callers |-> Idle]
    /\ steps = 0

NextFacts ==
    \/ GetWorldState /\ Sequential
    \/ AddNpcFacts /\ Sequential
    \/ MoveNpc /\ Sequential
    \/ MarkNpcAsMet /\ Sequential
    \/ UpdateNpcMemory /\ Sequential

SpecFacts == InitFacts /\ [][NextFacts]_vars

(***************************************************************************)
(* Calls made while writes of world_state.json may fail (full or read-only *)
(* disk, file size limit), from any of the three conditions of the file.   *)
(***************************************************************************)
WriteOutcomes == {"yes", "open_fails", "dump_fails"}

\* The environment changes what the next writes do.
DiskChanges ==
    /\ \E w \in WriteOutcomes \ {writable} : writable' = w
    /\ UNCHANGED <<fileStatus, fileDoc, DEFAULT_WORLD_STATE>>

InitFaults ==
    /\ fileStatus \in {"ok", "missing", "corrupt"}
    /\ fileDoc = DefaultWorld
    /\ DEFAULT_WORLD_STATE = DefaultWorld
    /\ writable \in WriteOutcomes
    /\ calls = [c \in Callers |-> Idle]
    /\ steps = 0

NextFaults ==
    \/ GetWorldState /\ Counted
    \/ MovePlayer /\ Counted
    \/ MoveNpc /\ Counted
    \/ TransferItem /\ Counted
    \/ AddToInventory /\ Counted
    \/ RemoveFromInventory /\ Counted
    \/ UnlockDoor /\ Counted
    \/ UpdateNpcMemory /\ Counted
    \/ ConfigureNpc /\ Counted
    \/ MarkNpcAsMet /\ Counted
    \/ DiskChanges /\ Counted

SpecFaults == InitFaults /\ [][NextFaults]_vars

(***************************************************************************)
(* Concurrent callers.  No tool takes a lock: a call reads                 *)
(* world_state.json, works on its private copy and writes the file back,   *)
(* and the calls of two callers that share the file (two server processes  *)
(* started over the same directory) interleave between the read and the    *)
(* write.  The read and the write are each taken as atomic.  Each caller   *)
(* makes one call.                                                         *)
(***************************************************************************)
ConcurrentCalls ==
    {<<"move_player", "library">>, <<"move_player", "kitchen">>,
     <<"move_npc", "elena", "foyer">>,
     <<"transfer_item", "silver_key", "foyer", "player">>,
     <<"transfer_item", "silver_key", "foyer", "elena">>,
     <<"transfer_item", "silver_key", "foyer", "nowhere">>,
     <<"mark_npc_as_met", "elena">>,
     <<"update_npc_memory", "elena", "t", "a">>,
     <<"unlock_door", "foyer", "north", "silver_key">>}

\* The call o run without interruption on store S.
Apply(S, o) ==
    CASE o[1] = "move_player" -> move_player(S, o[2])
      [] o[1] = "move_npc" -> move_npc(S, o[2], o[3])
      [] o[1] = "transfer_item" -> transfer_item(S, o[2], o[3], o[4])
      [] o[1] = "add_to_inventory" -> add_to_inventory(S, o[2])
      [] o[1] = "mark_npc_as_met" -> mark_npc_as_met(S, o[2])
      [] o[1] = "update_npc_memory" -> update_npc_memory(S, o[2], o[3], o[4])
      [] o[1] = "remove_from_inventory" -> remove_from_inventory(S, o[2])
      [] o[1] = "configure_npc" -> configure_npc(S, o[2], o[3], o[4], o[5])
      [] o[1] = "get_world_state" -> get_world_state(S)
      [] OTHER -> unlock_door(S, o[2], o[3], o[4])

SetStore(S) ==
    /\ fileStatus' = S.fileStatus
    /\ fileDoc' = S.fileDoc
    /\ DEFAULT_WORLD_STATE' = S.dflt
    /\ writable' = S.writable

\* Caller c enters a tool: the tool loads the document and runs up to its
\* save_world_state or its error return.
Begin(c) ==
    \E o \in ConcurrentCalls :
        LET L == load_world_state(Store)
            r == Apply(Store, o)
        IN  /\ calls[c].pc = "idle"
            /\ calls' = [calls EXCEPT ![c] =
                    [pc |-> "loaded", call |-> o, res |-> r.res,
                     saved |-> r.saved, state |-> r.state]]
            /\ SetStore(Mutated(L, r.state))
            /\ UNCHANGED steps

\* add_to_inventory loads the document and checks that the item lies in the
\* player's location; transfer_item, which it then awaits, loads again.
AddCheck(c) ==
    LET L == load_world_state(Store)
        current_location == L.state.player.location
    IN  /\ calls[c].pc = "idle"
        /\ calls' = [calls EXCEPT ![c] =
                IF Contains(L.state.locations[current_location].items, "silver_key")
                THEN [pc |-> "checked", call |-> <<"add_to_inventory", "silver_key">>,
                      from |-> current_location]
                ELSE [pc |-> "done", call |-> <<"add_to_inventory", "silver_key">>,
                      res |-> "NotAvailable"]]
        /\ SetStore(L.store)
        /\ UNCHANGED steps

AddTransfer(c) ==
    /\ calls[c].pc = "checked"
    /\ LET L == load_world_state(Store)
           r == transfer_item(Store, calls[c].call[2], calls[c].from, "player")
       IN  /\ calls' = [calls EXCEPT ![c] =
                   [pc |-> "loaded", call |-> calls[c].call,
                    res |-> IF IsError(r.res) THEN r.res ELSE "PickedUp",
                    saved |-> r.saved, state |-> r.state]]
           /\ SetStore(Mutated(L, r.state))
    /\ UNCHANGED steps

\* Caller c's tool writes its document, if it got that far, and returns.
Finish(c) ==
    /\ calls[c].pc = "loaded"
    /\ SetStore(IF calls[c].saved THEN save_world_state(Store, calls[c].state) ELSE Store)
    /\ calls' = [calls EXCEPT ![c] =
            [pc |-> "done", call |-> calls[c].call, res |-> calls[c].res]]
    /\ UNCHANGED steps

NextConc ==
    \/ \E c \in Callers : Begin(c)
    \/ \E c \in Callers : AddCheck(c)
    \/ \E c \in Callers : AddTransfer(c)
    \/ \E c \in Callers : Finish(c)

SpecConc == Init /\ [][NextConc]_vars

(***************************************************************************)
(* Observation.                                                            *)
(***************************************************************************)
\* The document the next load returns.
NextLoad(S) == load_world_state(S).state

World == NextLoad(Store)

RECURSIVE SumOver(_, _)
SumOver(f, D) ==
    IF D = {} THEN 0
    ELSE LET x == CHOOSE y \in D : TRUE IN f[x] + SumOver(f, D \ {x})

\* Number of places (with multiplicity) where item is referenced.
Holders(doc, item) ==
    SumOver([l \in DOMAIN doc.locations |-> Count(doc.locations[l].items, item)],
            DOMAIN doc.locations)
    + Count(doc.player.inventory, item)
    + SumOver([n \in DOMAIN doc.npcs |-> Count(doc.npcs[n].inventory, item)],
              DOMAIN doc.npcs)

\* Every door of doc2 has the locked value it has in doc1.
SameLocks(doc1, doc2) ==
    /\ DOMAIN doc1.locations = DOMAIN doc2.locations
    /\ \A l \in DOMAIN doc1.locations :
        /\ DOMAIN doc1.locations[l].door_states = DOMAIN doc2.locations[l].door_states
        /\ \A d \in DOMAIN doc1.locations[l].door_states :
            doc1.locations[l].door_states[d].locked = doc2.locations[l].door_states[d].locked

\* Every call the actions make.
AllCalls ==
    {<<"get_world_state">>}
    \cup {<<"move_player", l>> : l \in LocationArgs}
    \cup {<<"move_npc", n, l>> : n \in NpcArgs, l \in LocationArgs}
    \cup {<<"transfer_item", i, f, t>> : i \in ItemArgs, f \in ContainerArgs, t \in ContainerArgs}
    \cup {<<"add_to_inventory", i>> : i \in ItemArgs}
    \cup {<<"remove_from_inventory", i>> : i \in ItemArgs}
    \cup {<<"unlock_door", l, d, k>> : l \in DoorLocationArgs, d \in DirectionArgs, k \in ItemArgs}
    \cup {<<"update_npc_memory", n, m[1], m[2]>> : n \in NpcArgs, m \in MemoryArgs}
    \cup {<<"configure_npc", n, c[1], c[2], c[3]>> : n \in NpcArgs, c \in ConfigArgs}
    \cup {<<"mark_npc_as_met", n>> : n \in NpcArgs}

InitStore == [fileStatus |-> "ok", fileDoc |-> DefaultWorld,
              dflt |-> DefaultWorld, writable |-> "yes"]

(***************************************************************************)
(* C4.                                                                     *)
(***************************************************************************)
\* C4 (as claimed): a move to a target that no exit of the mover's current
\* location leads to fails with the no-such-exit error, whether or not the
\* target is a Location id, and the mover's location is unchanged.
C4_AlwaysNoSuchExit ==
    /\ \A l \in LocationArgs :
        l \notin ExitTargets(World.locations[World.player.location]) =>
            LET r == move_player(Store, l)
            IN  /\ r.res = "NoSuchExit"
                /\ NextLoad(r.store).player.location = World.player.location
    /\ \A n \in NpcArgs, l \in LocationArgs :
        (n \in DOMAIN World.npcs
            /\ l \notin ExitTargets(World.locations[World.npcs[n].location])) =>
            LET r == move_npc(Store, n, l)
            IN  /\ r.res = "NoSuchExit"
                /\ NextLoad(r.store).npcs[n].location = World.npcs[n].location

\* C4 (amended): such a move fails and leaves the mover's location unchanged;
\* the error is LocationNotFound when the target is not a Location id and
\* the no-such-exit error when it is.
C4_FailsUnchanged ==
    /\ \A l \in LocationArgs :
        l \notin ExitTargets(World.locations[World.player.location]) =>
            LET r == move_player(Store, l)
            IN  /\ r.res = IF l \in DOMAIN World.locations
                           THEN "NoSuchExit" ELSE "LocationNotFound"
                /\ NextLoad(r.store).player.location = World.player.location
    /\ \A n \in NpcArgs, l \in LocationArgs :
        (n \in DOMAIN World.npcs
            /\ l \notin ExitTargets(World.locations[World.npcs[n].location])) =>
            LET r == move_npc(Store, n, l)
            IN  /\ r.res = IF l \in DOMAIN World.locations
                           THEN "NoSuchExit" ELSE "LocationNotFound"
                /\ NextLoad(r.store).npcs[n].location = World.npcs[n].location

\* Player and NPC have moved away from where they start, and from there a
\* move to an existing, non-adjacent location and one to an unknown location
\* are both refused.
C4_Witness ==
    /\ World.player.location = "kitchen"
    /\ World.npcs["elena"].location = "foyer"
    /\ move_player(Store, "library").res = "NoSuchExit"
    /\ move_player(Store, "nowhere").res = "LocationNotFound"
    /\ move_npc(Store, "elena", "attic").res = "NoSuchExit"

(***************************************************************************)
(* C6.                                                                     *)
(***************************************************************************)
\* C6: unlock_door with a key item whose can_unlock does not contain the
\* door identifier fails, and every door keeps its locked value.
C6_WrongKeyFails ==
    \A l \in DoorLocationArgs, d \in DirectionArgs, k \in ItemArgs :
        (k \in DOMAIN World.items
            /\ Underscore(l, d) \notin World.items[k].can_unlock) =>
            LET r == unlock_door(Store, l, d, k)
            IN  /\ IsError(r.res)
                /\ SameLocks(World, NextLoad(r.store))

\* The player holds both items in front of the locked trapdoor, and neither
\* opens it.
C6_Witness ==
    /\ World.player.location = "kitchen"
    /\ Contains(World.player.inventory, "silver_key")
    /\ Contains(World.player.inventory, "iron_pot")
    /\ World.locations["kitchen"].door_states["down"].locked
    /\ unlock_door(Store, "kitchen", "down", "silver_key").res = "KeyDoesNotMatch"
    /\ unlock_door(Store, "foyer", "north", "iron_pot").res = "KeyDoesNotMatch"

(***************************************************************************)
(* C7.                                                                     *)
(***************************************************************************)
ScenarioStart(doc) ==
    /\ doc.player.location = "foyer"
    /\ Contains(doc.locations["foyer"].items, "silver_key")
    /\ doc.locations["foyer"].door_states["north"].locked

\* The four calls of the scenario, each on the store the previous one left.
Scenario1(S) == move_player(S, "study")
Scenario2(S) == add_to_inventory(Scenario1(S).store, "silver_key")
Scenario3(S) == unlock_door(Scenario2(S).store, "foyer", "north", "silver_key")
Scenario4(S) == move_player(Scenario3(S).store, "study")

\* C7: with the player in foyer, silver_key in foyer's items and the north
\* door locked, move_player("study") fails with door-locked,
\* add_to_inventory("silver_key") succeeds and moves the key from foyer's
\* items to the inventory, unlock_door("foyer","north","silver_key") then
\* succeeds and clears locked, and move_player("study") then succeeds with
\* the key still in the inventory.
C7_Scenario ==
    ScenarioStart(World) =>
        LET r1 == Scenario1(Store)
            r2 == Scenario2(Store)
            r3 == Scenario3(Store)
            r4 == Scenario4(Store)
            w2 == NextLoad(r2.store)
            w3 == NextLoad(r3.store)
            w4 == NextLoad(r4.store)
        IN  /\ r1.res = "DoorLocked"
            /\ NextLoad(r1.store) = World
            /\ r2.res = "PickedUp"
            /\ Contains(w2.player.inventory, "silver_key")
            /\ ~Contains(w2.locations["foyer"].items, "silver_key")
            /\ r3.res = "Unlocked"
            /\ ~w3.locations["foyer"].door_states["north"].locked
            /\ r4.res = "Moved"
            /\ w4.player.location = "study"
            /\ Contains(w4.player.inventory, "silver_key")

\* The store at the end of the scenario played from the default world.
C7_Witness == Store = Scenario4(InitStore).store

(***************************************************************************)
(* C9.                                                                     *)
(***************************************************************************)
\* C9: for a registered NPC, a second mark_npc_as_met returns the
\* informational message, which is no error, and changes nothing; the id is
\* in met_npcs exactly once, as after the first call.
C9_MarkIdempotent ==
    \A n \in NpcArgs :
        n \in DOMAIN World.npcs =>
            LET r1 == mark_npc_as_met(Store, n)
                r2 == mark_npc_as_met(r1.store, n)
            IN  /\ ~IsError(r1.res)
                /\ r2.res = "AlreadyMet"
                /\ ~IsError(r2.res)
                /\ r2.store = r1.store
                /\ Count(NextLoad(r1.store).player.met_npcs, n) = 1
                /\ NextLoad(r2.store).player.met_npcs = NextLoad(r1.store).player.met_npcs

\* elena has been marked as met, and marking her again is the informational
\* case.
C9_Witness ==
    /\ World.player.met_npcs = <<"elena">>
    /\ mark_npc_as_met(Store, "elena").res = "AlreadyMet"

(***************************************************************************)
(* C10.                                                                    *)
(***************************************************************************)
\* C10: the player's location, every NPC's location and every exit target
\* are ids of existing locations.
C10_LocationsExist ==
    /\ World.player.location \in DOMAIN World.locations
    /\ \A n \in DOMAIN World.npcs : World.npcs[n].location \in DOMAIN World.locations
    /\ \A l \in DOMAIN World.locations :
        ExitTargets(World.locations[l]) \subseteq DOMAIN World.locations

\* Player and NPC have both moved, through the unlocked door, to the far end
\* of the map.
C10_Witness ==
    /\ World.player.location = "attic"
    /\ World.npcs["elena"].location = "study"

(***************************************************************************)
(* C8.                                                                     *)
(***************************************************************************)
\* C8: recent_thoughts and recent_actions of every NPC have at most 4
\* entries.
C8_MemoryBounded ==
    \A n \in DOMAIN World.npcs :
        /\ Len(World.npcs[n].recent_thoughts) <= 4
        /\ Len(World.npcs[n].recent_actions) <= 4

\* Both buffers are full, and stay at 4 entries when one more thought and
\* action are recorded.
C8_Witness ==
    /\ World.npcs["elena"].recent_thoughts = <<"t2", "t1", "t1", "t2">>
    /\ Len(World.npcs["elena"].recent_actions) = 4
    /\ LET w == NextLoad(update_npc_memory(Store, "elena", "t1", "a1").store)
       IN  /\ w.npcs["elena"].recent_thoughts = <<"t1", "t1", "t2", "t1">>
           /\ Len(w.npcs["elena"].recent_actions) = 4

(***************************************************************************)
(* C5.                                                                     *)
(***************************************************************************)
\* Some direction of loc that leads to location has a locked door.
SomeLockedDirection(loc, location) ==
    \E d \in DOMAIN loc.exits :
        /\ loc.exits[d] = location
        /\ d \in DOMAIN loc.door_states
        /\ loc.door_states[d].locked = TRUE

\* C5: a move to a destination to which some locked direction of the
\* current location leads fails with the door-locked error and leaves the
\* mover where it is, also when an unlocked direction leads there; and no
\* move that changes the mover's location has such a direction.
C5_LockedDoorBlocks ==
    /\ \A l \in LocationArgs :
        LET here == World.player.location
            r == move_player(Store, l)
            there == NextLoad(r.store).player.location
        IN  /\ SomeLockedDirection(World.locations[here], l) =>
                    r.res = "DoorLocked" /\ there = here
            /\ there # here => ~SomeLockedDirection(World.locations[here], there)
    /\ \A n \in DOMAIN World.npcs, l \in LocationArgs :
        LET here == World.npcs[n].location
            r == move_npc(Store, n, l)
            there == NextLoad(r.store).npcs[n].location
        IN  /\ SomeLockedDirection(World.locations[here], l) =>
                    r.res = "DoorLocked" /\ there = here
            /\ there # here => ~SomeLockedDirection(World.locations[here], there)

\* Player and NPC stand in foyer, from where the locked north door and the
\* doorless window both lead to study, and both are refused.
C5_Witness ==
    /\ World.player.location = "foyer"
    /\ World.npcs["elena"].location = "foyer"
    /\ World.locations["foyer"].exits["window"] = "study"
    /\ "window" \notin DOMAIN World.locations["foyer"].door_states
    /\ World.locations["foyer"].door_states["north"].locked
    /\ Contains(World.player.inventory, "iron_pot")
    /\ move_player(Store, "study").res = "DoorLocked"
    /\ move_npc(Store, "elena", "study").res = "DoorLocked"

(***************************************************************************)
(* C1 and C2.                                                              *)
(***************************************************************************)
\* C1: every registered item id is referenced exactly once, in exactly one
\* of the locations' items, the player's inventory and the NPCs'
\* inventories.
C1_ItemInExactlyOnePlace ==
    \A i \in DOMAIN World.items : Holders(World, i) = 1

\* container is an existing container of doc that holds item.
HeldBy(doc, container, item) ==
    CASE container = "player" -> Contains(doc.player.inventory, item)
      [] container # "player" /\ container \in DOMAIN doc.npcs ->
            Contains(doc.npcs[container].inventory, item)
      [] OTHER ->
            /\ container \in DOMAIN doc.locations
            /\ Contains(doc.locations[container].items, item)

\* C2: transfer_item of an item held by its source to a destination that is
\* neither "player" nor an NPC id nor a Location id returns the
\* destination-not-found error, and the next load still lists the item in
\* the source and nowhere else.
C2_UnknownDestinationKeepsItem ==
    \A i \in ItemArgs, f \in ContainerArgs, t \in ContainerArgs :
        (/\ i \in DOMAIN World.items
         /\ HeldBy(World, f, i)
         /\ t # "player"
         /\ t \notin DOMAIN World.npcs
         /\ t \notin DOMAIN World.locations) =>
            LET r == transfer_item(Store, i, f, t)
                w == NextLoad(r.store)
            IN  /\ r.res = "DestinationNotFound"
                /\ HeldBy(w, f, i)
                /\ Holders(w, i) = 1

(***************************************************************************)
(* C3.                                                                     *)
(***************************************************************************)
\* The two calls, made one after the other in the order a, b from the
\* default world, return what the callers got and leave the store as it is.
SerialOutcome(a, b) ==
    LET ra == Apply(InitStore, calls[a].call)
        rb == Apply(ra.store, calls[b].call)
    IN  /\ calls[a].res = ra.res
        /\ calls[b].res = rb.res
        /\ Store = rb.store

\* C3: the calls of two concurrent callers do not interleave their read and
\* write phases, so no update is lost: when both have returned, their
\* messages and the persisted document are those of the two calls made one
\* after the other, in one of the two orders; and the item is never
\* referenced twice.
C3_CallsAreSerialized ==
    /\ \A i \in DOMAIN World.items : Holders(World, i) <= 1
    /\ (\A c \in Callers : calls[c].pc = "done") =>
            SerialOutcome("c1", "c2") \/ SerialOutcome("c2", "c1")
(***************************************************************************)
(* C11.                                                                    *)
(***************************************************************************)
\* C11: when world_state.json is missing, or cannot be read or parsed, load
\* returns the default document and persists it, so that the file then
\* holds the default.
C11_LoadPersistsDefault ==
    fileStatus # "ok" =>
        LET L == load_world_state(Store)
        IN  /\ L.state = DEFAULT_WORLD_STATE
            /\ L.store.fileStatus = "ok"
            /\ L.store.fileDoc = DEFAULT_WORLD_STATE

(***************************************************************************)
(* C12.                                                                    *)
(***************************************************************************)
\* C12: when the write of world_state.json fails during a call that
\* succeeds when the write works, the call returns the same success message
\* and the file keeps the content it had before the call.
C12_WriteFailureSwallowed ==
    writable # "yes" =>
        \A o \in AllCalls :
            LET r0 == Apply([Store EXCEPT !.writable = "yes"], o)
                r == Apply(Store, o)
            IN  (fileStatus = "ok" /\ r0.saved /\ ~IsError(r0.res)) =>
                    /\ r.res = r0.res
                    /\ r.store.fileStatus = "ok"
                    /\ r.store.fileDoc = fileDoc

(***************************************************************************)
(* C13.                                                                    *)
(***************************************************************************)
\* C13: when a call that mutates the loaded document returns a success
\* message and the write of world_state.json works, the next load and
\* get_world_state return the document as the call mutated it.
C13_PersistedAfterMutation ==
    writable = "yes" =>
        \A o \in AllCalls :
            LET r == Apply(Store, o)
            IN  (~IsError(r.res) /\ ~IsFault(r.res) /\ r.state # World) =>
                    /\ NextLoad(r.store) = r.state
                    /\ get_world_state(r.store).state = r.state

\* The file holds a world that calls have changed, writes work, and the
\* next pick-up is returned by the load that follows it.
C13_Witness ==
    /\ fileStatus = "ok"
    /\ writable = "yes"
    /\ World.player.location = "kitchen"
    /\ World.npcs["elena"].location = "foyer"
    /\ LET r == add_to_inventory(Store, "iron_pot")
       IN  /\ r.res = "PickedUp"
           /\ r.state # World
           /\ NextLoad(r.store) = r.state
(***************************************************************************)
(* C14.                                                                    *)
(***************************************************************************)
\* Strings of every kind for every argument: the empty string, the literal
\* "player", an NPC id, a Location id, an Item id and a direction.
AnyIds == {"", "player", "elena", "kitchen", "silver_key", "down"}

\* C14: on every world reachable from the default world, every tool returns
\* a message for every choice of string arguments; none raises.
C14_NoFault ==
    /\ ~IsFault(get_world_state(Store).res)
    /\ \A a \in AnyIds :
        /\ ~IsFault(move_player(Store, a).res)
        /\ ~IsFault(add_to_inventory(Store, a).res)
        /\ ~IsFault(remove_from_inventory(Store, a).res)
        /\ ~IsFault(mark_npc_as_met(Store, a).res)
        /\ \A c \in ConfigArgs : ~IsFault(configure_npc(Store, a, c[1], c[2], c[3]).res)
    /\ \A a \in AnyIds, b \in AnyIds :
        /\ ~IsFault(move_npc(Store, a, b).res)
        /\ \A c \in AnyIds :
            /\ ~IsFault(transfer_item(Store, a, b, c).res)
            /\ ~IsFault(unlock_door(Store, a, b, c).res)
    /\ \A a \in AnyIds, m \in MemoryArgs :
        ~IsFault(update_npc_memory(Store, a, m[1], m[2]).res)

\* Player and NPC are away from where they start, the player carries both
\* items, and calls with ids of the wrong kind, unknown ids and empty
\* strings are answered with error messages.
C14_Witness ==
    /\ World.player.location = "attic"
    /\ World.npcs["elena"].location = "kitchen"
    /\ Len(World.player.inventory) = 2
    /\ move_player(Store, "silver_key").res = "LocationNotFound"
    /\ move_npc(Store, "kitchen", "kitchen").res = "EntityNotFound"
    /\ add_to_inventory(Store, "").res = "NotAvailable"
    /\ transfer_item(Store, "silver_key", "elena", "").res = "ItemNotInNpcInventory"
    /\ transfer_item(Store, "silver_key", "silver_key", "player").res = "SourceNotFound"
    /\ unlock_door(Store, "kitchen", "down", "elena").res = "KeyNotHeld"
    /\ update_npc_memory(Store, "player", "t", "").res = "EntityNotFound"
(***************************************************************************)
(* C15.                                                                    *)
(***************************************************************************)
NoDuplicates(s) == \A i \in DOMAIN s, j \in DOMAIN s : s[i] = s[j] => i = j

\* C15: no NPC's facts sequence holds the same string twice, and
\* add_npc_facts appends exactly the supplied facts that were not present,
\* each once, and returns them.
C15_NpcFactsUnique ==
    /\ \A n \in DOMAIN World.npcs : NoDuplicates(World.npcs[n].facts)
    /\ \A n \in DOMAIN World.npcs, fs \in FactArgs :
        LET r == add_npc_facts(Store, n, fs)
            before == World.npcs[n].facts
            after == NextLoad(r.store).npcs[n].facts
        IN  /\ ~IsError(r.res)
            /\ after = before \o r.new
            /\ Range(r.new) = Range(fs) \ Range(before)
            /\ NoDuplicates(after)

\* Two facts are recorded, and a list that names a known fact and a new
\* fact twice adds the new fact once.
C15_Witness ==
    /\ World.npcs["elena"].facts = <<"f2", "f1">>
    /\ add_npc_facts(Store, "elena", <<"f1", "f1">>).new = <<>>
    /\ add_npc_facts(Store, "elena", <<"f3", "f3">>).new = <<"f3">>
    /\ NextLoad(add_npc_facts(Store, "elena", <<"f3", "f3">>).store).npcs["elena"].facts
            = <<"f2", "f1", "f3">>
(***************************************************************************)
(* C16.                                                                    *)
(***************************************************************************)
\* C16: a successful move_player or move_npc changes the mover's location
\* and nothing else: the document the call holds when it returns, and the
\* document the next load returns, are the loaded document with that one
\* field replaced.
C16_MoveChangesOnlyLocation ==
    /\ \A l \in LocationArgs :
        LET r == move_player(Store, l)
        IN  r.res = "Moved" =>
                /\ r.state = [World EXCEPT !.player.location = l]
                /\ NextLoad(r.store) = [World EXCEPT !.player.location = l]
    /\ \A n \in NpcArgs, l \in LocationArgs :
        LET r == move_npc(Store, n, l)
        IN  r.res = "Moved" =>
                /\ r.state = [World EXCEPT !.npcs[n].location = l]
                /\ NextLoad(r.store) = [World EXCEPT !.npcs[n].location = l]

\* The player carries an item and has met elena, elena carries the other
\* item, a door is unlocked, and both can move.
C16_Witness ==
    /\ World.player.inventory = <<"silver_key">>
    /\ World.player.met_npcs = <<"elena">>
    /\ World.npcs["elena"].inventory = <<"iron_pot">>
    /\ ~World.locations["foyer"].door_states["north"].locked
    /\ World.player.location = "study"
    /\ move_player(Store, "attic").res = "Moved"
    /\ move_npc(Store, "elena", "foyer").res = "Moved"

(***************************************************************************)
(* C17.                                                                    *)
(***************************************************************************)
\* The outcome of a move from here to target on doc, by the first
\* precondition that fails.
FirstMoveFailure(doc, here, target) ==
    IF target \notin DOMAIN doc.locations THEN "LocationNotFound"
    ELSE IF \A d \in DOMAIN doc.locations[here].exits :
                doc.locations[here].exits[d] # target THEN "NoSuchExit"
    ELSE IF SomeLockedDirection(doc.locations[here], target) THEN "DoorLocked"
    ELSE "Moved"

\* C17: a move is decided by the first failing precondition, in the order:
\* unknown NPC id (move_npc), target not a key of locations, no exit of the
\* current location leading to the target, locked door.
C17_MoveCheckOrder ==
    /\ \A l \in LocationArgs :
        move_player(Store, l).res = FirstMoveFailure(World, World.player.location, l)
    /\ \A n \in NpcArgs, l \in LocationArgs :
        move_npc(Store, n, l).res =
            IF n \notin DOMAIN World.npcs THEN "EntityNotFound"
            ELSE FirstMoveFailure(World, World.npcs[n].location, l)

\* From kitchen and from foyer each of the four errors is returned, the
\* unknown NPC before the unknown target and the unknown target before the
\* missing exit.
C17_Witness ==
    /\ World.player.location = "kitchen"
    /\ World.npcs["elena"].location = "foyer"
    /\ move_npc(Store, "nobody", "nowhere").res = "EntityNotFound"
    /\ move_npc(Store, "elena", "nowhere").res = "LocationNotFound"
    /\ move_npc(Store, "elena", "attic").res = "NoSuchExit"
    /\ move_npc(Store, "elena", "study").res = "DoorLocked"
    /\ move_player(Store, "nowhere").res = "LocationNotFound"
    /\ move_player(Store, "cellar").res = "DoorLocked"

(***************************************************************************)
(* C18.                                                                    *)
(***************************************************************************)
\* The outcome of unlock_door on doc, by the first precondition that fails.
FirstUnlockFailure(doc, l, d, k) ==
    IF l \notin DOMAIN doc.locations THEN "LocationNotFound"
    ELSE IF d \notin DOMAIN doc.locations[l].door_states THEN "NoSuchDoor"
    ELSE IF ~Contains(doc.player.inventory, k) THEN "KeyNotHeld"
    ELSE IF k \notin DOMAIN doc.items THEN "KeyItemNotFound"
    ELSE IF Underscore(l, d) \notin doc.items[k].can_unlock THEN "KeyDoesNotMatch"
    ELSE "Unlocked"

\* The store whose file holds doc.
Persisted(doc) == [Store EXCEPT !.fileStatus = "ok", !.fileDoc = doc]

\* C18: unlock_door returns the error of the first failing check, in the
\* order location, door, key held, key registered, key matches; it succeeds
\* exactly when all five pass, and then the door's locked is false.  The
\* same on the world with an unregistered id put in the inventory, where
\* the fourth check is the one that fails.
C18_UnlockCheckOrder ==
    \A l \in DoorLocationArgs, d \in DirectionArgs, k \in ItemArgs :
        LET r == unlock_door(Store, l, d, k)
            odd == [World EXCEPT !.player.inventory = Append(@, "ghost_item")]
            r2 == unlock_door(Persisted(odd), l, d, k)
        IN  /\ r.res = FirstUnlockFailure(World, l, d, k)
            /\ r.res = "Unlocked" =>
                    ~NextLoad(r.store).locations[l].door_states[d].locked
            /\ r.res # "Unlocked" => SameLocks(World, NextLoad(r.store))
            /\ r2.res = FirstUnlockFailure(odd, l, d, k)

\* The player holds the pot and not the key: each check is the first to
\* fail for some call, and the unregistered key is reported as not held.
C18_Witness ==
    /\ World.player.inventory = <<"iron_pot">>
    /\ World.player.location = "kitchen"
    /\ unlock_door(Store, "nowhere", "north", "ghost_item").res = "LocationNotFound"
    /\ unlock_door(Store, "kitchen", "north", "ghost_item").res = "NoSuchDoor"
    /\ unlock_door(Store, "kitchen", "down", "ghost_item").res = "KeyNotHeld"
    /\ unlock_door(Store, "foyer", "north", "silver_key").res = "KeyNotHeld"
    /\ unlock_door(Store, "foyer", "north", "iron_pot").res = "KeyDoesNotMatch"
    /\ unlock_door(Persisted([World EXCEPT !.player.inventory = Append(@, "ghost_item")]),
                   "foyer", "north", "ghost_item").res = "KeyItemNotFound"

(***************************************************************************)
(* C19.                                                                    *)
(***************************************************************************)
\* The door d of location l is unlocked in doc.
Unlocked(doc, l, d) ==
    /\ l \in DOMAIN doc.locations
    /\ d \in DOMAIN doc.locations[l].door_states
    /\ ~doc.locations[l].door_states[d].locked

\* C19: a door that is unlocked is unlocked after every call, and
\* unlock_door with its key succeeds again on it and leaves it unlocked.
C19_UnlockPermanent ==
    [][LET before == World
           after == World'
       IN  \A l \in DOMAIN before.locations :
            \A d \in DOMAIN before.locations[l].door_states :
                Unlocked(before, l, d) =>
                    /\ Unlocked(after, l, d)
                    /\ \A k \in DOMAIN before.items :
                        (Contains(before.player.inventory, k)
                            /\ Underscore(l, d) \in before.items[k].can_unlock) =>
                            LET r == unlock_door(Store, l, d, k)
                            IN  /\ r.res = "Unlocked"
                                /\ Unlocked(NextLoad(r.store), l, d)]_vars

\* The north door has been unlocked, the player has gone through it with
\* the key, and unlocking it again succeeds.
C19_Witness ==
    /\ Unlocked(World, "foyer", "north")
    /\ World.player.location = "attic"
    /\ Contains(World.player.inventory, "silver_key")
    /\ unlock_door(Store, "foyer", "north", "silver_key").res = "Unlocked"

(***************************************************************************)
(* C20.                                                                    *)
(***************************************************************************)
\* The last entries of buffer followed by entry, at most 4 of them, oldest
\* first.
Newest4(buffer, entry) ==
    LET all == buffer \o <<entry>>
        k == IF Len(all) < 4 THEN Len(all) ELSE 4
    IN  [i \in 1..k |-> all[Len(all) - k + i]]

\* C20: update_npc_memory with a non-empty thought leaves in recent_thoughts
\* the last 4 entries of the previous buffer followed by the thought, in
\* order; likewise action and recent_actions; an empty argument leaves its
\* buffer as it is.
C20_OldestEvictedFirst ==
    \A n \in DOMAIN World.npcs, t \in ThoughtArgs, a \in ActionArgs :
        LET r == update_npc_memory(Store, n, t, a)
            before == World.npcs[n]
            after == NextLoad(r.store).npcs[n]
        IN  /\ ~IsError(r.res)
            /\ after.recent_thoughts =
                    IF t = "" THEN before.recent_thoughts
                    ELSE Newest4(before.recent_thoughts, t)
            /\ after.recent_actions =
                    IF a = "" THEN before.recent_actions
                    ELSE Newest4(before.recent_actions, a)

\* Both buffers are full, and a thought recorded without an action evicts
\* the oldest thought and leaves the actions alone.
C20_Witness ==
    /\ World.npcs["elena"].recent_thoughts = <<"t1", "t2", "t2", "t1">>
    /\ World.npcs["elena"].recent_actions = <<"a2", "a1", "a1", "a2">>
    /\ LET w == NextLoad(update_npc_memory(Store, "elena", "t2", "").store)
       IN  /\ w.npcs["elena"].recent_thoughts = <<"t2", "t2", "t1", "t2">>
           /\ w.npcs["elena"].recent_actions = <<"a2", "a1", "a1", "a2">>
(***************************************************************************)
(* C21.                                                                    *)
(***************************************************************************)
\* C21: on a registered NPC, update_npc_memory with an empty thought and an
\* empty action, and configure_npc with three empty arguments, each return
\* their no-op message, which is no error, and leave the whole world
\* document as it is.
C21_EmptyCallsChangeNothing ==
    \A n \in DOMAIN World.npcs :
        LET r == update_npc_memory(Store, n, "", "")
            c == configure_npc(Store, n, "", "", <<>>)
        IN  /\ r.res = "NoUpdates"
            /\ ~IsError(r.res)
            /\ r.state = World
            /\ NextLoad(r.store) = World
            /\ c.res = "NoChanges"
            /\ ~IsError(c.res)
            /\ c.state = World
            /\ NextLoad(c.store) = World

\* elena has thoughts, actions and core memories, and the two empty calls
\* are answered with the no-op messages.
C21_Witness ==
    /\ World.npcs["elena"].recent_thoughts = <<"t1", "t2">>
    /\ World.npcs["elena"].recent_actions = <<"a1">>
    /\ World.npcs["elena"].core_memories = <<<<"a">>, <<"b">>>>
    /\ update_npc_memory(Store, "elena", "", "").res = "NoUpdates"
    /\ configure_npc(Store, "elena", "", "", <<>>).res = "NoChanges"
(***************************************************************************)
(* C22.                                                                    *)
(***************************************************************************)
\* The kind of container that id names in doc: "player" first, then the
\* NPCs, then the locations.
ContainerKind(doc, id) ==
    IF id = "player" THEN "player"
    ELSE IF id \in DOMAIN doc.npcs THEN "npc"
    ELSE IF id \in DOMAIN doc.locations THEN "location"
    ELSE "none"

\* The list of the container that id names in doc.
ContentsOf(doc, id) ==
    CASE ContainerKind(doc, id) = "player" -> doc.player.inventory
      [] ContainerKind(doc, id) = "npc" -> doc.npcs[id].inventory
      [] ContainerKind(doc, id) = "location" -> doc.locations[id].items
      [] OTHER -> <<>>

\* doc with the list of the container that id names replaced by list.
WithContents(doc, id, list) ==
    CASE ContainerKind(doc, id) = "player" -> [doc EXCEPT !.player.inventory = list]
      [] ContainerKind(doc, id) = "npc" -> [doc EXCEPT !.npcs[id].inventory = list]
      [] ContainerKind(doc, id) = "location" -> [doc EXCEPT !.locations[id].items = list]
      [] OTHER -> doc

\* C22: transfer_item takes each container id as "player", else as an NPC,
\* else as a location: a successful transfer removes the item from the list
\* of the source so resolved and appends it to the list of the destination
\* so resolved, and touches nothing else (an id that names an NPC and a
\* location means the NPC's inventory, both ways); a source that does not
\* exist or does not hold the item fails and leaves the document as it is.
C22_ContainerPriority ==
    \A i \in DOMAIN World.items, f \in ContainerArgs, t \in ContainerArgs :
        LET r == transfer_item(Store, i, f, t)
            taken == WithContents(World, f, ListRemove(ContentsOf(World, f), i))
            put == WithContents(taken, t, Append(ContentsOf(taken, t), i))
        IN  IF ContainerKind(World, f) = "none" \/ ~Contains(ContentsOf(World, f), i)
            THEN /\ IsError(r.res)
                 /\ r.state = World
                 /\ NextLoad(r.store) = World
            ELSE ContainerKind(World, t) # "none" =>
                    /\ r.res = "Transferred"
                    /\ NextLoad(r.store) = put

\* The key lies in the location foyer and the pot in the inventory of the
\* NPC foyer: with "foyer" as the source the pot can be taken and the key
\* cannot, and with "foyer" as the destination the NPC receives.
C22_Witness ==
    /\ "foyer" \in DOMAIN World.npcs
    /\ World.locations["foyer"].items = <<"silver_key">>
    /\ World.npcs["foyer"].inventory = <<"iron_pot">>
    /\ transfer_item(Store, "silver_key", "foyer", "player").res = "ItemNotInNpcInventory"
    /\ transfer_item(Store, "iron_pot", "foyer", "player").res = "Transferred"
    /\ NextLoad(transfer_item(Store, "iron_pot", "foyer", "foyer").store) = World
(***************************************************************************)
(* C23.                                                                    *)
(***************************************************************************)
\* C23: a call that returns an error leaves world_state.json as it was and
\* the next load returns the document that a load before the call returned,
\* also when that document is the default obtained by the fallback.
C23_ErrorsChangeNothing ==
    \A o \in AllCalls :
        LET r == Apply(Store, o)
        IN  IsError(r.res) =>
                /\ NextLoad(r.store) = World
                /\ fileStatus = "ok" =>
                        r.store.fileStatus = "ok" /\ r.store.fileDoc = fileDoc

(***************************************************************************)
(* C24.                                                                    *)
(***************************************************************************)
\* C24: DEFAULT_WORLD_STATE is never modified: a load that falls back to it
\* returns the original scenario, with the player in foyer with an empty
\* inventory, silver_key in foyer's items and the foyer north door locked.
C24_DefaultNeverModified ==
    fileStatus # "ok" =>
        LET state == load_world_state(Store).state
        IN  /\ state = DefaultWorld
            /\ state.player.location = "foyer"
            /\ state.player.inventory = <<>>
            /\ Contains(state.locations["foyer"].items, "silver_key")
            /\ state.locations["foyer"].door_states["north"].locked

(***************************************************************************)
(* C25.                                                                    *)
(***************************************************************************)
\* C25: when the player or an NPC is in study or in attic, the foyer north
\* door is unlocked.
C25_BehindTheNorthDoor ==
    LET behind == {"study", "attic"}
    IN  (World.player.location \in behind
            \/ \E n \in DOMAIN World.npcs : World.npcs[n].location \in behind) =>
            Unlocked(World, "foyer", "north")

\* The player has unlocked the door, left the key in foyer and stands in
\* attic, and elena has followed into study.
C25_Witness ==
    /\ World.player.location = "attic"
    /\ World.npcs["elena"].location = "study"
    /\ Contains(World.locations["foyer"].items, "silver_key")
    /\ Unlocked(World, "foyer", "north")

(***************************************************************************)
(* C26.                                                                    *)
(***************************************************************************)
\* C26: no item's can_unlock contains "kitchen_down", the kitchen trapdoor
\* is locked, and neither the player nor an NPC is in cellar.
C26_CellarUnreachable ==
    /\ \A i \in DOMAIN World.items : "kitchen_down" \notin World.items[i].can_unlock
    /\ World.locations["kitchen"].door_states["down"].locked
    /\ World.player.location # "cellar"
    /\ \A n \in DOMAIN World.npcs : World.npcs[n].location # "cellar"

\* Player and elena stand in kitchen, the player holds the key and the
\* pot, neither opens the trapdoor, and the way down is refused to both.
C26_Witness ==
    /\ World.player.location = "kitchen"
    /\ World.npcs["elena"].location = "kitchen"
    /\ Contains(World.player.inventory, "silver_key")
    /\ Contains(World.player.inventory, "iron_pot")
    /\ IsError(unlock_door(Store, "kitchen", "down", "silver_key").res)
    /\ IsError(unlock_door(Store, "kitchen", "down", "iron_pot").res)
    /\ move_player(Store, "cellar").res = "DoorLocked"
    /\ move_npc(Store, "elena", "cellar").res = "DoorLocked"

(***************************************************************************)
(* C27.                                                                    *)
(***************************************************************************)
\* Every container of doc2 holds the ids it holds in doc1.
SameContents(doc1, doc2) ==
    /\ Range(doc1.player.inventory) = Range(doc2.player.inventory)
    /\ DOMAIN doc1.locations = DOMAIN doc2.locations
    /\ \A l \in DOMAIN doc1.locations :
        Range(doc1.locations[l].items) = Range(doc2.locations[l].items)
    /\ DOMAIN doc1.npcs = DOMAIN doc2.npcs
    /\ \A n \in DOMAIN doc1.npcs :
        Range(doc1.npcs[n].inventory) = Range(doc2.npcs[n].inventory)

\* C27: add_to_inventory(item) succeeds exactly when the item is in the
\* items of the player's location, and otherwise returns the not-available
\* error and changes nothing; after a successful add_to_inventory(item),
\* remove_from_inventory(item) succeeds and every container holds what it
\* held before the two calls, the item back in the player's location.
C27_AddThenRemove ==
    \A i \in ItemArgs :
        LET here == World.player.location
            r1 == add_to_inventory(Store, i)
            r2 == remove_from_inventory(r1.store, i)
            w1 == NextLoad(r1.store)
            w2 == NextLoad(r2.store)
        IN  IF Contains(World.locations[here].items, i)
            THEN /\ r1.res = "PickedUp"
                 /\ Contains(w1.player.inventory, i)
                 /\ ~Contains(w1.locations[here].items, i)
                 /\ r2.res = "Dropped"
                 /\ SameContents(World, w2)
                 /\ Contains(w2.locations[here].items, i)
                 /\ w2.player.location = here
            ELSE /\ r1.res = "NotAvailable"
                 /\ w1 = World

\* The player stands in study with the key at their feet and the pot in
\* the inventory: the key can be picked up and dropped again, and the pot
\* is not available.
C27_Witness ==
    /\ World.player.location = "study"
    /\ World.locations["study"].items = <<"silver_key">>
    /\ World.player.inventory = <<"iron_pot">>
    /\ add_to_inventory(Store, "silver_key").res = "PickedUp"
    /\ add_to_inventory(Store, "iron_pot").res = "NotAvailable"
    /\ remove_from_inventory(add_to_inventory(Store, "silver_key").store, "silver_key").res
            = "Dropped"
====
